---- MODULE Spec2Model ----
(***************************************************************************)
(* Model of src/lib/WireGuard.js (class WireGuard): the memoized           *)
(* load/bootstrap of the configuration (getConfig), its persistence        *)
(* (__saveConfig: wg0.json and wg0.conf), the live sync (__syncConfig) and *)
(* the client operations.                                                  *)
(*                                                                         *)
(* Every operation is an async function.  A task of the model is one call  *)
(* of a public method; one step of a task is the code it runs between two  *)
(* awaits (JavaScript runs that code without interruption), so tasks       *)
(* interleave exactly at the awaits.  An awaited file write or command     *)
(* takes effect, or fails, in the step that resumes after it.              *)
(***************************************************************************)
EXTENDS Integers, Sequences, FiniteSets, TLC

(* ------------------------------ bounds --------------------------------- *)

\* number of calls that can be in flight at the same time
NumTasks == 2

\* number of calls made in one run whose calls may overlap; a run whose caller
\* awaits every call before the next makes one call more
MaxCalls == 2

\* last value of the wall clock read by new Date()
MaxTime == 2

(* --------------------------- program constants ------------------------- *)

\* for (let i = 2; i < 255; i++)
ScanFirst == 2

ScanLimit == 255

\* new ServerError(`Client Not Found: ...`, 404)
NotFoundStatus == 404

\* new ServerError(`Invalid Address: ...`, 400)
BadRequestStatus == 400

\* WG_DEFAULT_ADDRESS, split at '/' into the address and the subnet width
WG_DEFAULT_ADDRESS == [ipAddress |-> <<10, 8, 0, 0>>, subnetIp |-> "24"]

(* ------------------------------ values --------------------------------- *)

Tasks == 1 .. NumTasks

\* the ids of the clients of the stored document, and an id that is no client
StoredIds == {"c1", "c2"}

ClientIds == StoredIds \cup {"c9"}

\* names handed to createClient and updateClientName ("" is the empty name)
Names == {"", "n1"}

\* addresses handed to updateClientAddress: a dotted quad is the sequence of
\* its blocks; 999.1.1.1 and 10.8.0 are not valid IPv4 addresses
Addresses == {<<10, 8, 0, 5>>, <<999, 1, 1, 1>>, <<10, 8, 0>>}

\* what new Date() gives at clock value t, and what JSON holds for it
DateAt(t) == [type |-> "Date", ms |-> t]

\* Date.prototype.toJSON: a Date is written as an ISO string; a string
\* (a timestamp loaded from wg0.json) is written as it is
ToJSONDate(d) == [type |-> "string", ms |-> d.ms]

\* new Date(client.createdAt) in getClients
NewDate(d) == [type |-> "Date", ms |-> d.ms]

\* a file that does not exist, and a wg0.json that JSON.parse rejects
NoFile == [kind |-> "absent"]

CorruptFile == [kind |-> "corrupt"]

NoConfig == [kind |-> "none"]

NoSnap == [kind |-> "none"]

NoOp == [name |-> "none", clientId |-> "", newName |-> "", address |-> <<>>, call |-> 0]

NoError == [name |-> "none", statusCode |-> 0]

\* ServerError(message, statusCode) and the plain Errors of the module
ServerError(code) == [name |-> "ServerError", statusCode |-> code]

PlainError(what) == [name |-> what, statusCode |-> 0]

Pending == [status |-> "pending", error |-> NoError, value |-> "none"]

Resolved(v) == [status |-> "ok", error |-> NoError, value |-> v]

Rejected(e) == [status |-> "error", error |-> e, value |-> "none"]

\* the keys the wg commands give: wg genkey, wg pubkey of it, wg genpsk
GeneratedKeys == {"kA"}

PubKeyOf(priv) == <<"pub", priv>>

\* a wg0.json document written by an earlier run: two clients, the second
\* disabled; its timestamps are the strings JSON holds
StoredClient(id, key, suffix, on) ==
  [id |-> id, name |-> "n0", address |-> <<10, 8, 0, suffix>>,
   privateKey |-> key, publicKey |-> PubKeyOf(key), preSharedKey |-> <<"psk", key>>,
   createdAt |-> ToJSONDate(DateAt(0)), updatedAt |-> ToJSONDate(DateAt(0)),
   enabled |-> on]

StoredServer ==
  [privateKey |-> "k0", publicKey |-> PubKeyOf("k0"), address |-> <<10, 8, 0, 1>>]

StoredDoc ==
  [server |-> StoredServer,
   clients |-> [i \in StoredIds |->
                  IF i = "c1" THEN StoredClient(i, "k1", 2, TRUE)
                              ELSE StoredClient(i, "k2", 3, FALSE)]]

(* ------------------------- pure functions of the code ------------------ *)

\* ${config.server.cidrSubnet}: a property the object does not have reads as
\* undefined
CidrSubnetOf(server) ==
  IF "cidrSubnet" \in DOMAIN server THEN server.cidrSubnet ELSE "undefined"

\* the [Peer] section of one client in wg0.conf
PeerSection(client) ==
  [name |-> client.name, publicKey |-> client.publicKey,
   preSharedKey |-> client.preSharedKey, allowedIPs |-> <<client.address, 32>>]

\* a loop that skips no client
EnabledIdsUnfiltered(config) == DOMAIN config.clients

\* if (!client.enabled) continue;
EnabledIds(config) == {i \in DOMAIN config.clients : config.clients[i].enabled}

\* the text of wg0.conf: the [Interface] section and one [Peer] section for
\* every client the loop does not skip
RenderConf(config) ==
  [kind |-> "conf",
   interface |-> [privateKey |-> config.server.privateKey,
                  address |-> config.server.address,
                  cidrSubnet |-> CidrSubnetOf(config.server)],
   peers |-> [i \in EnabledIds(config) |-> PeerSection(config.clients[i])]]

\* JSON.stringify(config, false, 2)
Stringify(config) ==
  [kind |-> "json",
   doc |-> [server |-> config.server,
            clients |-> [i \in DOMAIN config.clients |->
                           [config.clients[i] EXCEPT
                              !.createdAt = ToJSONDate(@),
                              !.updatedAt = ToJSONDate(@)]]]]

\* what __saveConfig computes before its first await: both texts, from the
\* config as it is at that moment
SaveTexts(config) == [kind |-> "texts", json |-> Stringify(config), conf |-> RenderConf(config)]

\* Util.isValidIPv4: four blocks, each a number of 0..255
isValidIPv4(address) ==
  /\ Len(address) = 4
  /\ \A k \in 1 .. 4 : address[k] \in 0 .. 255

\* tempAddress = address.split('.'); tempAddress[3] = i; tempAddress.join('.')
WithSuffix(address, i) == [address EXCEPT ![4] = i]

\* Object.values(config.clients).find(...): some client whose address is its
\* own address with the last block replaced by i
ScanFinds(config, i) ==
  \E c \in DOMAIN config.clients :
    config.clients[c].address = WithSuffix(config.clients[c].address, i)

\* The scan of createClient.  A candidate i that no client has makes find
\* return undefined, and line 248 then reads client.address of it: TypeError.
\* When every candidate is taken the loop ends with address unset, and line
\* 256 reads the function's const client before its declaration at line 265:
\* ReferenceError.  No run of the scan leaves an address.
ScanOutcome(config) ==
  IF \E i \in ScanFirst .. (ScanLimit - 1) : ~ScanFinds(config, i)
  THEN PlainError("TypeError")
  ELSE PlainError("ReferenceError")

\* the bootstrap's server record: keys from wg, the default address with its
\* last block forced to 1; cidrSubnet is computed and not stored
BootstrapConfig(privateKey, publicKey) ==
  [server |-> [privateKey |-> privateKey, publicKey |-> publicKey,
               address |-> WithSuffix(WG_DEFAULT_ADDRESS.ipAddress, 1)],
   clients |-> [i \in {} |-> NoOp]]

\* null, as a value of the kind the set values are
Null == <<"null">>

\* Number(text): the number a decimal text of the dump stands for
Number(text) ==
  <<"number", CASE text = "0" -> 0 [] text = "1" -> 1 [] text = "2" -> 2 [] text = "7" -> 7>>

\* one entry of getClients before the dump is merged
ListEntry(id, client) ==
  [id |-> id, name |-> client.name, enabled |-> client.enabled,
   address |-> client.address, publicKey |-> client.publicKey,
   createdAt |-> NewDate(client.createdAt), updatedAt |-> NewDate(client.updatedAt),
   latestHandshakeAt |-> Null, transferRx |-> Null, transferTx |-> Null]

\* the lines of `wg show wg0 dump` after the header: public key, handshake
\* (epoch seconds as text, "0" for none), rx, tx, all of them text
DumpLines ==
  {[publicKey |-> PubKeyOf("k1"), latestHandshakeAt |-> "0", transferRx |-> "0",
    transferTx |-> "0"],
   [publicKey |-> PubKeyOf("k2"), latestHandshakeAt |-> "7", transferRx |-> "1",
    transferTx |-> "2"],
   [publicKey |-> PubKeyOf("k8"), latestHandshakeAt |-> "7", transferRx |-> "1",
    transferTx |-> "2"]}

Dumps == {{}, DumpLines}

\* clients.find by public key, then the merge of one line
MergeDump(entry, dump) ==
  IF \E l \in dump : l.publicKey = entry.publicKey
  THEN LET l == CHOOSE l \in dump : l.publicKey = entry.publicKey
       IN [entry EXCEPT
             !.latestHandshakeAt = IF l.latestHandshakeAt = "0" THEN Null
                                   ELSE <<"Date", Number(l.latestHandshakeAt), "000">>,
             !.transferRx = Number(l.transferRx),
             !.transferTx = Number(l.transferTx)]
  ELSE entry

(* ------------------------------- state --------------------------------- *)

VARIABLES
  serial,         \* the caller awaits every call before it makes the next
  wgHost,         \* WG_HOST is set
  configPromise,  \* this.__configPromise: "none", "pending", "resolved", "rejected"
  configError,    \* the error of the rejected promise
  config,         \* the object the promise resolved to
  configId,       \* the identity of that object (0: none yet)
  objects,        \* number of config objects made so far
  jsonFile,       \* wg0.json on disk
  confFile,       \* wg0.conf on disk
  interface,      \* wg0: "up" or "down"
  boot,           \* how often the bootstrap did each of its effects, and whether
                  \* its wg-quick down failed
  now,            \* the wall clock
  calls,          \* number of calls made
  op,             \* per task: the call it runs, with its arguments
  pc,             \* per task: the await it is suspended at
  ref,            \* per task: the config object getConfig gave it
  local,          \* per task: the locals of its step (the bootstrap's config, __saveConfig's texts)
  trace,          \* per task: the effects of its call, in order
  result          \* per task: what the call returned or threw

vars == <<serial, wgHost, configPromise, configError, config, configId, objects, jsonFile,
          confFile, interface, boot, now, calls, op, pc, ref, local,
          trace, result>>

shared == <<serial, wgHost, configPromise, configError, config, configId, objects>>

disk == <<jsonFile, confFile>>

NoBoot == [reads |-> 0, genkeys |-> 0, saves |-> 0, downs |-> 0, ups |-> 0, syncs |-> 0,
           downFailed |-> FALSE]

Init ==
  /\ serial \in BOOLEAN
  /\ wgHost \in BOOLEAN
  /\ configPromise = "none"
  /\ configError = NoError
  /\ config = NoConfig
  /\ configId = 0
  /\ objects = 0
  /\ \E f \in {NoFile, CorruptFile, Stringify(StoredDoc)} :
       /\ jsonFile = f
       /\ confFile = IF f.kind = "json" THEN RenderConf(f.doc) ELSE NoFile
  /\ interface \in {"down", "up"}
  /\ boot = NoBoot
  /\ now = 1
  /\ calls = 0
  /\ op = [p \in Tasks |-> NoOp]
  /\ pc = [p \in Tasks |-> "idle"]
  /\ ref = [p \in Tasks |-> 0]
  /\ local = [p \in Tasks |-> NoSnap]
  /\ trace = [p \in Tasks |-> <<>>]
  /\ result = [p \in Tasks |-> Pending]

(* ------------------------------ helpers -------------------------------- *)

\* a call of a method with its arguments; call is its number among the calls
\* of the run
Call(name, clientId, newName, address) ==
  [name |-> name, clientId |-> clientId, newName |-> newName, address |-> address,
   call |-> calls + 1]

Free(p) == pc[p] \in {"idle", "done"}

\* a call begins on the first task that runs none (a finished call's result
\* stays on its task until then)
Begin(p, o) ==
  /\ Free(p)
  /\ \A q \in Tasks : q < p => ~Free(q)
  /\ calls < (IF serial THEN MaxCalls + 1 ELSE MaxCalls)
  /\ serial => \A q \in Tasks : Free(q)
  /\ calls' = calls + 1
  /\ op' = [op EXCEPT ![p] = o]
  /\ ref' = [ref EXCEPT ![p] = 0]
  /\ local' = [local EXCEPT ![p] = NoSnap]
  /\ trace' = [trace EXCEPT ![p] = <<>>]

\* the call is suspended at its first await
Suspended(p) == result' = [result EXCEPT ![p] = Pending]

\* the call returns r or throws it
Finish(p, r) ==
  /\ pc' = [pc EXCEPT ![p] = "done"]
  /\ result' = [result EXCEPT ![p] = r]

Goto(p, label) == pc' = [pc EXCEPT ![p] = label]

Did(p, effect) == trace' = [trace EXCEPT ![p] = Append(@, effect)]

\* the bootstrap throws: the promise is rejected and its awaiters resume
Reject(p, e) ==
  /\ configPromise' = "rejected"
  /\ configError' = e
  /\ Goto(p, "await_config")

Count(field) == boot' = [boot EXCEPT ![field] = @ + 1]

(* ------------------------------ getConfig ------------------------------ *)

\* a getConfig that keeps no promise while the bootstrap runs
getConfigUnshared(p) ==
  IF configPromise \in {"none", "pending"}
  THEN /\ configPromise' = "pending"
       /\ Goto(p, "boot_start")
  ELSE /\ UNCHANGED configPromise
       /\ Goto(p, "await_config")

\* a getConfig that starts the bootstrap again after a rejected one
getConfigRetry(p) ==
  IF configPromise \in {"none", "rejected"}
  THEN /\ configPromise' = "pending"
       /\ Goto(p, "boot_start")
  ELSE /\ UNCHANGED configPromise
       /\ Goto(p, "await_config")

\* The call of getConfig: the first call makes the promise and starts the
\* bootstrap, which the model runs on the calling task (that call does nothing
\* else until the promise settles); every call returns the stored promise.
getConfig(p) ==
  IF configPromise = "none"
  THEN /\ configPromise' = "pending"
       /\ Goto(p, "boot_start")
  ELSE /\ UNCHANGED configPromise
       /\ Goto(p, "await_config")

\* if (!WG_HOST) throw ...; then readFile is awaited
getConfigStart(p) ==
  /\ pc[p] = "boot_start"
  /\ IF wgHost
     THEN Goto(p, "boot_read") /\ UNCHANGED <<configPromise, configError>>
     ELSE Reject(p, PlainError("WG_HOST Environment Variable Not Set!"))
  /\ UNCHANGED <<serial, wgHost, config, configId, objects, disk, interface, boot, now, calls,
                 op, ref, local, trace, result>>

\* readFile and JSON.parse: the loaded document is the config, and
\* __saveConfig(config) makes its texts; any failure goes to the catch
getConfigRead(p) ==
  /\ pc[p] = "boot_read"
  /\ Count("reads")
  /\ IF jsonFile.kind = "json"
     THEN /\ local' = [local EXCEPT ![p] =
                         [kind |-> "boot", config |-> jsonFile.doc, id |-> objects + 1,
                          json |-> Stringify(jsonFile.doc), conf |-> RenderConf(jsonFile.doc)]]
          /\ objects' = objects + 1
          /\ Goto(p, "boot_json")
     ELSE /\ Goto(p, "boot_genkey")
          /\ UNCHANGED <<local, objects>>
  /\ UNCHANGED <<serial, wgHost, configPromise, configError, config, configId, disk, interface,
                 now, calls, op, ref, trace, result>>

\* const privateKey = await Util.exec('wg genkey')
getConfigGenKey(p) ==
  /\ pc[p] = "boot_genkey"
  /\ Count("genkeys")
  /\ \E ok \in BOOLEAN, k \in GeneratedKeys :
       IF ok
       THEN /\ local' = [local EXCEPT ![p] = [kind |-> "key", privateKey |-> k]]
            /\ Goto(p, "boot_pubkey")
            /\ UNCHANGED <<configPromise, configError>>
       ELSE /\ k = "kA"
            /\ Reject(p, PlainError("ExecError"))
            /\ UNCHANGED local
  /\ UNCHANGED <<serial, wgHost, config, configId, objects, disk, interface, now, calls, op, ref,
                 trace, result>>

\* const publicKey = await Util.exec(`echo ${privateKey} | wg pubkey`); the
\* fresh config is built and __saveConfig(config) makes its texts
getConfigPubKey(p) ==
  /\ pc[p] = "boot_pubkey"
  /\ \E ok \in BOOLEAN :
       IF ok
       THEN LET fresh == BootstrapConfig(local[p].privateKey, PubKeyOf(local[p].privateKey))
            IN /\ local' = [local EXCEPT ![p] =
                              [kind |-> "boot", config |-> fresh, id |-> objects + 1,
                               json |-> Stringify(fresh), conf |-> RenderConf(fresh)]]
               /\ objects' = objects + 1
               /\ Goto(p, "boot_json")
               /\ UNCHANGED <<configPromise, configError>>
       ELSE /\ Reject(p, PlainError("ExecError"))
            /\ UNCHANGED <<local, objects>>
  /\ UNCHANGED <<serial, wgHost, config, configId, disk, interface, boot, now, calls, op, ref,
                 trace, result>>

\* await this.__saveConfig(config): the write of wg0.json
getConfigWriteJson(p) ==
  /\ pc[p] = "boot_json"
  /\ Count("saves")
  /\ \E ok \in BOOLEAN :
       IF ok
       THEN /\ jsonFile' = local[p].json
            /\ Goto(p, "boot_conf")
            /\ UNCHANGED <<configPromise, configError>>
       ELSE /\ Reject(p, PlainError("WriteError"))
            /\ UNCHANGED jsonFile
  /\ UNCHANGED <<serial, wgHost, config, configId, objects, confFile, interface, now, calls, op,
                 ref, local, trace, result>>

\* the write of wg0.conf
getConfigWriteConf(p) ==
  /\ pc[p] = "boot_conf"
  /\ \E ok \in BOOLEAN :
       IF ok
       THEN /\ confFile' = local[p].conf
            /\ Goto(p, "boot_down")
            /\ UNCHANGED <<configPromise, configError>>
       ELSE /\ Reject(p, PlainError("WriteError"))
            /\ UNCHANGED confFile
  /\ UNCHANGED <<serial, wgHost, config, configId, objects, jsonFile, interface, boot, now, calls,
                 op, ref, local, trace, result>>

\* a wg-quick down whose failure is not caught
getConfigDownStrict(p) ==
  /\ pc[p] = "boot_down"
  /\ boot' = [boot EXCEPT !.downs = @ + 1, !.downFailed = (interface # "up")]
  /\ interface' = "down"
  /\ IF interface = "up"
     THEN Goto(p, "boot_up") /\ UNCHANGED <<configPromise, configError>>
     ELSE Reject(p, PlainError("ExecError"))
  /\ UNCHANGED <<serial, wgHost, config, configId, objects, disk, now, calls, op, ref, local,
                 trace, result>>

\* await Util.exec('wg-quick down wg0').catch(() => { }): the command fails
\* when wg0 is not up, and the failure is dropped; wg0 is down either way
getConfigDown(p) ==
  /\ pc[p] = "boot_down"
  /\ boot' = [boot EXCEPT !.downs = @ + 1, !.downFailed = (interface # "up")]
  /\ interface' = "down"
  /\ Goto(p, "boot_up")
  /\ UNCHANGED <<shared, disk, now, calls, op, ref, local, trace, result>>

\* await Util.exec('wg-quick up wg0').catch(...): both branches of the catch
\* throw
getConfigUp(p) ==
  /\ pc[p] = "boot_up"
  /\ Count("ups")
  /\ \E outcome \in {"ok", "Cannot find device", "other"} :
       IF outcome = "ok"
       THEN /\ interface' = "up"
            /\ Goto(p, "boot_sync")
            /\ UNCHANGED <<configPromise, configError>>
       ELSE /\ Reject(p, PlainError(IF outcome = "other" THEN "ExecError"
                                    ELSE "WireGuard exited with the error"))
            /\ UNCHANGED interface
  /\ UNCHANGED <<serial, wgHost, config, configId, objects, disk, now, calls, op, ref,
                 local, trace, result>>

\* await this.__syncConfig(); return config: the promise resolves to the object
getConfigSync(p) ==
  /\ pc[p] = "boot_sync"
  /\ Count("syncs")
  /\ \E ok \in BOOLEAN :
       IF ok /\ confFile.kind = "conf"
       THEN /\ configPromise' = "resolved"
            /\ config' = local[p].config
            /\ configId' = local[p].id
            /\ Goto(p, "await_config")
            /\ UNCHANGED configError
       ELSE /\ Reject(p, PlainError("ExecError"))
            /\ UNCHANGED <<config, configId>>
  /\ UNCHANGED <<serial, wgHost, objects, disk, interface, now, calls, op, ref, local, trace,
                 result>>

\* an await of the rejected promise throws its error, in every operation
getConfigRejected(p) ==
  /\ pc[p] = "await_config"
  /\ configPromise = "rejected"
  /\ Finish(p, Rejected(configError))
  /\ UNCHANGED <<shared, disk, interface, boot, now, calls, op, ref, local, trace>>

\* an await of the resolved promise gives the config object
GotConfig(p, name) ==
  /\ pc[p] = "await_config"
  /\ configPromise = "resolved"
  /\ op[p].name = name
  /\ ref' = [ref EXCEPT ![p] = configId]

\* a direct call of getConfig
getState(p) ==
  /\ Begin(p, Call("getConfig", "", "", <<>>))
  /\ getConfig(p)
  /\ Suspended(p)
  /\ UNCHANGED <<serial, wgHost, configError, config, configId, objects, disk, interface, boot, now>>

getStateReturn(p) ==
  /\ GotConfig(p, "getConfig")
  /\ Finish(p, Resolved(configId))
  /\ UNCHANGED <<shared, disk, interface, boot, now, calls, op, local, trace>>

(* ------------------------ saveConfig, __saveConfig ---------------------- *)

\* saveConfig after its await of getConfig: __saveConfig(config) makes both
\* texts from the config as it is now and starts the write of wg0.json
saveConfig(p) ==
  /\ pc[p] = "save_enter"
  /\ configPromise = "resolved"
  /\ local' = [local EXCEPT ![p] = SaveTexts(config)]
  /\ Goto(p, "save_json")
  /\ UNCHANGED <<shared, disk, interface, boot, now, calls, op, ref, trace, result>>

\* a save that takes the config back to the stored document when the write of
\* wg0.json fails
saveConfigWriteJsonRollback(p) ==
  /\ pc[p] = "save_json"
  /\ Did(p, "writeJson")
  /\ \E ok \in BOOLEAN :
       IF ok
       THEN /\ jsonFile' = local[p].json
            /\ Goto(p, "save_conf")
            /\ UNCHANGED <<result, config>>
       ELSE /\ Finish(p, Rejected(PlainError("WriteError")))
            /\ config' = IF jsonFile.kind = "json" THEN jsonFile.doc ELSE config
            /\ UNCHANGED jsonFile
  /\ UNCHANGED <<serial, wgHost, configPromise, configError, configId, objects, confFile,
                 interface, boot, now, calls, op, ref, local>>

\* await fs.writeFile(wg0.json, ...); then the write of wg0.conf starts
saveConfigWriteJson(p) ==
  /\ pc[p] = "save_json"
  /\ Did(p, "writeJson")
  /\ \E ok \in BOOLEAN :
       IF ok
       THEN /\ jsonFile' = local[p].json
            /\ Goto(p, "save_conf")
            /\ UNCHANGED result
       ELSE /\ Finish(p, Rejected(PlainError("WriteError")))
            /\ UNCHANGED jsonFile
  /\ UNCHANGED <<shared, confFile, interface, boot, now, calls, op, ref, local>>

\* await fs.writeFile(wg0.conf, ...); __saveConfig returns and saveConfig
\* starts __syncConfig
saveConfigWriteConf(p) ==
  /\ pc[p] = "save_conf"
  /\ Did(p, "writeConf")
  /\ \E ok \in BOOLEAN :
       IF ok
       THEN /\ confFile' = local[p].conf
            /\ Goto(p, "sync")
            /\ UNCHANGED result
       ELSE /\ Finish(p, Rejected(PlainError("WriteError")))
            /\ UNCHANGED confFile
  /\ UNCHANGED <<shared, jsonFile, interface, boot, now, calls, op, ref, local>>

\* a saveConfig that syncs nothing
syncConfigSkipped(p) ==
  /\ pc[p] = "sync"
  /\ Finish(p, Resolved("undefined"))
  /\ UNCHANGED <<shared, disk, interface, boot, now, calls, op, ref, local, trace>>

\* await this.__syncConfig(): wg syncconf; saveConfig and the operation that
\* awaited it return
syncConfig(p) ==
  /\ pc[p] = "sync"
  /\ Did(p, "sync")
  /\ \E ok \in BOOLEAN :
       IF ok /\ confFile.kind = "conf"
       THEN Finish(p, Resolved("undefined"))
       ELSE Finish(p, Rejected(PlainError("ExecError")))
  /\ UNCHANGED <<shared, disk, interface, boot, now, calls, op, ref, local>>

(* ------------------------------ getClients ----------------------------- *)

getClientsCall(p) ==
  /\ Begin(p, Call("getClients", "", "", <<>>))
  /\ getConfig(p)
  /\ Suspended(p)
  /\ UNCHANGED <<serial, wgHost, configError, config, configId, objects, disk, interface, boot, now>>

\* one entry for every stored client; then wg show wg0 dump is awaited
getClients(p) ==
  /\ GotConfig(p, "getClients")
  /\ local' = [local EXCEPT ![p] =
                 [kind |-> "clients",
                  clients |-> {ListEntry(i, config.clients[i]) : i \in DOMAIN config.clients}]]
  /\ Goto(p, "dump")
  /\ UNCHANGED <<shared, disk, interface, boot, now, calls, op, trace, result>>

\* a getClients that returns the entries the dump has a line for
getClientsDumpMatched(p) ==
  /\ pc[p] = "dump"
  /\ \E ok \in BOOLEAN, dump \in Dumps :
       IF ok
       THEN Finish(p, Resolved({MergeDump(e, dump) :
                                  e \in {x \in local[p].clients :
                                           \E l \in dump : l.publicKey = x.publicKey}}))
       ELSE /\ dump = {}
            /\ Finish(p, Rejected(PlainError("ExecError")))
  /\ UNCHANGED <<shared, disk, interface, boot, now, calls, op, ref, local, trace>>

\* the lines of the dump are merged into the entries
getClientsDump(p) ==
  /\ pc[p] = "dump"
  /\ \E ok \in BOOLEAN, dump \in Dumps :
       IF ok
       THEN Finish(p, Resolved({MergeDump(e, dump) : e \in local[p].clients}))
       ELSE /\ dump = {}
            /\ Finish(p, Rejected(PlainError("ExecError")))
  /\ UNCHANGED <<shared, disk, interface, boot, now, calls, op, ref, local, trace>>

(* ------------------- getClient, getClientConfiguration ----------------- *)

\* the operations that begin with await this.getClient({ clientId })
ClientOps == {"getClient", "enableClient", "disableClient", "updateClientName",
              "updateClientAddress"}

\* a getClient that returns undefined for an id it does not find
getClientLookupLenient(p) ==
  IF op[p].clientId \in DOMAIN config.clients
  THEN /\ local' = [local EXCEPT ![p] =
                      [kind |-> "client", client |-> config.clients[op[p].clientId]]]
       /\ IF op[p].name = "getClient"
          THEN Finish(p, Resolved(config.clients[op[p].clientId]))
          ELSE Goto(p, "await_client") /\ UNCHANGED result
  ELSE /\ Finish(p, Resolved("undefined"))
       /\ UNCHANGED local

\* config.clients[clientId], or the 404
getClientLookup(p) ==
  IF op[p].clientId \in DOMAIN config.clients
  THEN /\ local' = [local EXCEPT ![p] =
                      [kind |-> "client", client |-> config.clients[op[p].clientId]]]
       /\ IF op[p].name = "getClient"
          THEN Finish(p, Resolved(config.clients[op[p].clientId]))
          ELSE Goto(p, "await_client") /\ UNCHANGED result
  ELSE /\ Finish(p, Rejected(ServerError(NotFoundStatus)))
       /\ UNCHANGED local

getClientCall(p) ==
  /\ \E id \in ClientIds : Begin(p, Call("getClient", id, "", <<>>))
  /\ getConfig(p)
  /\ Suspended(p)
  /\ UNCHANGED <<serial, wgHost, configError, config, configId, objects, disk, interface, boot, now>>

\* getClient after its await of getConfig, called directly or by enableClient,
\* disableClient, updateClientName, updateClientAddress
getClient(p) ==
  /\ \E name \in ClientOps : GotConfig(p, name)
  /\ getClientLookup(p)
  /\ UNCHANGED <<shared, disk, interface, boot, now, calls, op, trace>>

getClientConfigurationCall(p) ==
  /\ \E id \in ClientIds : Begin(p, Call("getClientConfiguration", id, "", <<>>))
  /\ getConfig(p)
  /\ Suspended(p)
  /\ UNCHANGED <<serial, wgHost, configError, config, configId, objects, disk, interface, boot, now>>

\* const config = await this.getConfig(); then getClient is called and awaits
\* getConfig itself
getClientConfiguration(p) ==
  /\ GotConfig(p, "getClientConfiguration")
  /\ Goto(p, "getClient_config")
  /\ UNCHANGED <<shared, disk, interface, boot, now, calls, op, local, trace, result>>

getClientConfigurationGetClient(p) ==
  /\ pc[p] = "getClient_config"
  /\ getClientLookup(p)
  /\ UNCHANGED <<shared, disk, interface, boot, now, calls, op, ref, trace>>

\* the client object a task holds: the stored one, or the one it looked up if
\* the client has been deleted since
Held(p) ==
  IF op[p].clientId \in DOMAIN config.clients
  THEN config.clients[op[p].clientId]
  ELSE local[p].client

\* the text of the client's configuration
getClientConfigurationRender(p) ==
  /\ pc[p] = "await_client"
  /\ op[p].name = "getClientConfiguration"
  /\ Finish(p, Resolved([privateKey |-> IF Held(p).privateKey = "" THEN "REPLACE_ME"
                                        ELSE Held(p).privateKey,
                         address |-> Held(p).address,
                         cidrSubnet |-> CidrSubnetOf(Held(p)),
                         publicKey |-> config.server.publicKey,
                         preSharedKey |-> Held(p).preSharedKey]))
  /\ UNCHANGED <<shared, disk, interface, boot, now, calls, op, ref, local, trace>>

(* ------------------------------ createClient --------------------------- *)

\* a createClient without its check of the name
createClientUnchecked(p) ==
  /\ \E name \in Names : Begin(p, Call("createClient", "", name, <<>>))
  /\ getConfig(p)
  /\ Suspended(p)
  /\ UNCHANGED <<serial, wgHost, configError, config, configId, objects, disk, interface, boot, now>>

\* if (!name) throw new Error('Missing: Name'); then getConfig is awaited
createClient(p) ==
  /\ \E name \in Names :
       /\ Begin(p, Call("createClient", "", name, <<>>))
       /\ IF name = ""
          THEN /\ Finish(p, Rejected(PlainError("Missing: Name")))
               /\ UNCHANGED configPromise
          ELSE /\ getConfig(p)
               /\ Suspended(p)
  /\ UNCHANGED <<serial, wgHost, configError, config, configId, objects, disk, interface, boot, now>>

\* const config = await this.getConfig(); wg genkey is started
createClientConfig(p) ==
  /\ GotConfig(p, "createClient")
  /\ Goto(p, "genkey")
  /\ UNCHANGED <<shared, disk, interface, boot, now, calls, op, local, trace, result>>

\* one of the three awaited commands: it gives its key or throws
CreateExec(p, at, effect, next) ==
  /\ pc[p] = at
  /\ Did(p, effect)
  /\ \E ok \in BOOLEAN :
       IF ok
       THEN Goto(p, next) /\ UNCHANGED result
       ELSE Finish(p, Rejected(PlainError("ExecError")))
  /\ UNCHANGED <<shared, disk, interface, boot, now, calls, op, ref, local>>

createClientGenKey(p) == CreateExec(p, "genkey", "genkey", "pubkey")

createClientPubKey(p) == CreateExec(p, "pubkey", "pubkey", "genpsk")

\* const preSharedKey = await Util.exec('wg genpsk'); then the scan for the
\* next address, which throws on every config (ScanOutcome): the rest of
\* createClient, lines 263..283, is never run
createClientGenPsk(p) ==
  /\ pc[p] = "genpsk"
  /\ Did(p, "genpsk")
  /\ \E ok \in BOOLEAN :
       IF ok
       THEN Finish(p, Rejected(ScanOutcome(config)))
       ELSE Finish(p, Rejected(PlainError("ExecError")))
  /\ UNCHANGED <<shared, disk, interface, boot, now, calls, op, ref, local>>

(* ------------------------------ deleteClient --------------------------- *)

deleteClientCall(p) ==
  /\ \E id \in ClientIds : Begin(p, Call("deleteClient", id, "", <<>>))
  /\ getConfig(p)
  /\ Suspended(p)
  /\ UNCHANGED <<serial, wgHost, configError, config, configId, objects, disk, interface, boot, now>>

\* delete config.clients[clientId]
WithoutClient(cfg, id) ==
  [cfg EXCEPT !.clients = [i \in DOMAIN cfg.clients \ {id} |-> cfg.clients[i]]]

\* a deleteClient that throws the 404 for an id it does not find
deleteClientStrict(p) ==
  /\ GotConfig(p, "deleteClient")
  /\ IF op[p].clientId \in DOMAIN config.clients
     THEN /\ config' = WithoutClient(config, op[p].clientId)
          /\ Did(p, "mutate")
          /\ Goto(p, "save_enter")
          /\ UNCHANGED result
     ELSE /\ Finish(p, Rejected(ServerError(NotFoundStatus)))
          /\ UNCHANGED <<config, trace>>
  /\ UNCHANGED <<serial, wgHost, configPromise, configError, configId, objects, disk, interface,
                 boot, now, calls, op, local>>

\* if (config.clients[clientId]) { delete ...; await this.saveConfig(); }
deleteClient(p) ==
  /\ GotConfig(p, "deleteClient")
  /\ IF op[p].clientId \in DOMAIN config.clients
     THEN /\ config' = WithoutClient(config, op[p].clientId)
          /\ Did(p, "mutate")
          /\ Goto(p, "save_enter")
          /\ UNCHANGED result
     ELSE /\ Finish(p, Resolved("undefined"))
          /\ UNCHANGED <<config, trace>>
  /\ UNCHANGED <<serial, wgHost, configPromise, configError, configId, objects, disk, interface,
                 boot, now, calls, op, local>>

(* ---------- enableClient, disableClient, updateClientName/Address ------ *)

\* new Date(): the wall clock, which has stood still or moved on since it was
\* last read
Clock == {t \in {now, now + 1} : t <= MaxTime}

\* an assignment to the held client object reaches the config unless the
\* client has been deleted since it was looked up
Assign(cfg, id, changed) ==
  IF id \in DOMAIN cfg.clients THEN [cfg EXCEPT !.clients[id] = changed] ELSE cfg

\* the step after await this.getClient(...): the assignments, then saveConfig
\* is called and awaits getConfig
Mutate(p, name, t, changed) ==
  /\ pc[p] = "await_client"
  /\ op[p].name = name
  /\ now' = t
  /\ config' = Assign(config, op[p].clientId, changed)
  /\ Did(p, "mutate")
  /\ Goto(p, "save_enter")
  /\ UNCHANGED <<serial, wgHost, configPromise, configError, configId, objects, disk, interface,
                 boot, calls, op, ref, local, result>>

enableClientCall(p) ==
  /\ \E id \in ClientIds : Begin(p, Call("enableClient", id, "", <<>>))
  /\ getConfig(p)
  /\ Suspended(p)
  /\ UNCHANGED <<serial, wgHost, configError, config, configId, objects, disk, interface, boot, now>>

\* an enableClient that stamps createdAt as well
enableClientStamped(p) ==
  \E t \in Clock :
    Mutate(p, "enableClient", t,
           [Held(p) EXCEPT !.enabled = TRUE, !.updatedAt = DateAt(t), !.createdAt = DateAt(t)])

\* client.enabled = true; client.updatedAt = new Date();
enableClient(p) ==
  \E t \in Clock :
    Mutate(p, "enableClient", t, [Held(p) EXCEPT !.enabled = TRUE, !.updatedAt = DateAt(t)])

disableClientCall(p) ==
  /\ \E id \in ClientIds : Begin(p, Call("disableClient", id, "", <<>>))
  /\ getConfig(p)
  /\ Suspended(p)
  /\ UNCHANGED <<serial, wgHost, configError, config, configId, objects, disk, interface, boot, now>>

\* client.enabled = false; client.updatedAt = new Date();
disableClient(p) ==
  \E t \in Clock :
    Mutate(p, "disableClient", t, [Held(p) EXCEPT !.enabled = FALSE, !.updatedAt = DateAt(t)])

updateClientNameCall(p) ==
  /\ \E id \in ClientIds, name \in Names :
       Begin(p, Call("updateClientName", id, name, <<>>))
  /\ getConfig(p)
  /\ Suspended(p)
  /\ UNCHANGED <<serial, wgHost, configError, config, configId, objects, disk, interface, boot, now>>

\* client.name = name; client.updatedAt = new Date();
updateClientName(p) ==
  \E t \in Clock :
    Mutate(p, "updateClientName", t,
           [Held(p) EXCEPT !.name = op[p].newName, !.updatedAt = DateAt(t)])

updateClientAddressCall(p) ==
  /\ \E id \in ClientIds, address \in Addresses :
       Begin(p, Call("updateClientAddress", id, "", address))
  /\ getConfig(p)
  /\ Suspended(p)
  /\ UNCHANGED <<serial, wgHost, configError, config, configId, objects, disk, interface, boot, now>>

\* an updateClientAddress that assigns before it validates
updateClientAddressEager(p) ==
  /\ pc[p] = "await_client"
  /\ op[p].name = "updateClientAddress"
  /\ \E t \in Clock :
       /\ now' = t
       /\ config' = Assign(config, op[p].clientId,
                           [Held(p) EXCEPT !.address = op[p].address,
                                           !.updatedAt = DateAt(t)])
  /\ IF isValidIPv4(op[p].address)
     THEN /\ Did(p, "mutate")
          /\ Goto(p, "save_enter")
          /\ UNCHANGED result
     ELSE /\ Finish(p, Rejected(ServerError(BadRequestStatus)))
          /\ UNCHANGED trace
  /\ UNCHANGED <<serial, wgHost, configPromise, configError, configId, objects, disk, interface,
                 boot, calls, op, ref, local>>

\* if (!Util.isValidIPv4(address)) throw new ServerError(..., 400);
\* client.address = address; client.updatedAt = new Date();
updateClientAddress(p) ==
  /\ pc[p] = "await_client"
  /\ op[p].name = "updateClientAddress"
  /\ IF isValidIPv4(op[p].address)
     THEN /\ \E t \in Clock :
               /\ now' = t
               /\ config' = Assign(config, op[p].clientId,
                                   [Held(p) EXCEPT !.address = op[p].address,
                                                   !.updatedAt = DateAt(t)])
          /\ Did(p, "mutate")
          /\ Goto(p, "save_enter")
          /\ UNCHANGED result
     ELSE /\ Finish(p, Rejected(ServerError(BadRequestStatus)))
          /\ UNCHANGED <<config, now, trace>>
  /\ UNCHANGED <<serial, wgHost, configPromise, configError, configId, objects, disk, interface,
                 boot, calls, op, ref, local>>

(* -------------------------------- Shutdown ----------------------------- *)

\* a Shutdown that forgets the loaded config
ShutdownForgets(p) ==
  /\ Begin(p, Call("Shutdown", "", "", <<>>))
  /\ Goto(p, "down")
  /\ configPromise' = "none"
  /\ Suspended(p)
  /\ UNCHANGED <<serial, wgHost, configError, config, configId, objects, disk, interface, boot, now>>

Shutdown(p) ==
  /\ Begin(p, Call("Shutdown", "", "", <<>>))
  /\ Goto(p, "down")
  /\ Suspended(p)
  /\ UNCHANGED <<shared, disk, interface, boot, now>>

\* await Util.exec('wg-quick down wg0').catch(() => { }), as in getConfig
ShutdownDown(p) ==
  /\ pc[p] = "down"
  /\ Did(p, "down")
  /\ interface' = "down"
  /\ Finish(p, Resolved("undefined"))
  /\ UNCHANGED <<shared, disk, boot, now, calls, op, ref, local>>

Next ==
  \E p \in Tasks :
       \/ getState(p) \/ getStateReturn(p)
       \/ getConfigStart(p) \/ getConfigRead(p) \/ getConfigGenKey(p)
       \/ getConfigPubKey(p) \/ getConfigWriteJson(p) \/ getConfigWriteConf(p)
       \/ getConfigDown(p) \/ getConfigUp(p) \/ getConfigSync(p)
       \/ getConfigRejected(p)
       \/ saveConfig(p) \/ saveConfigWriteJson(p) \/ saveConfigWriteConf(p)
       \/ syncConfig(p)
       \/ getClientsCall(p) \/ getClients(p) \/ getClientsDump(p)
       \/ getClientCall(p) \/ getClient(p)
       \/ getClientConfigurationCall(p) \/ getClientConfiguration(p)
       \/ getClientConfigurationGetClient(p) \/ getClientConfigurationRender(p)
       \/ createClient(p) \/ createClientConfig(p) \/ createClientGenKey(p)
       \/ createClientPubKey(p) \/ createClientGenPsk(p)
       \/ deleteClientCall(p) \/ deleteClient(p)
       \/ enableClientCall(p) \/ enableClient(p)
       \/ disableClientCall(p) \/ disableClient(p)
       \/ updateClientNameCall(p) \/ updateClientName(p)
       \/ updateClientAddressCall(p) \/ updateClientAddress(p)
       \/ Shutdown(p) \/ ShutdownDown(p)

Spec == Init /\ [][Next]_vars

(* ------------------- the scan of createClient, step by step ------------ *)

\* The candidates of the scan.
ScanRange == ScanFirst .. (ScanLimit - 1)

\* The last blocks of the stored addresses the scan is run on: no client, a
\* few clients, a client of every candidate, and every candidate but one.
ScanInputs ==
  {{}, {ScanFirst}, {ScanFirst, ScanFirst + 1}, {ScanFirst + 1}, ScanRange,
   ScanRange \ {ScanLimit - 1}, ScanRange \ {ScanFirst + 1}}

\* a loaded config with one client for every last block of S
ScanConfig(S) ==
  [server |-> StoredServer,
   clients |-> [i \in S |-> StoredClient(i, "k1", i, TRUE)]]

\* createClient after wg genpsk gave its key, on a config that was loaded from
\* its wg0.json: let address; the loop is about to start at i = 2
ScanInit ==
  /\ serial = TRUE
  /\ wgHost = TRUE
  /\ configPromise = "resolved"
  /\ configError = NoError
  /\ \E S \in ScanInputs :
       /\ config = ScanConfig(S)
       /\ jsonFile = Stringify(ScanConfig(S))
       /\ confFile = RenderConf(ScanConfig(S))
  /\ configId = 1
  /\ objects = 1
  /\ interface = "up"
  /\ boot = [reads |-> 1, genkeys |-> 0, saves |-> 1, downs |-> 1, ups |-> 1, syncs |-> 1,
             downFailed |-> TRUE]
  /\ now = 1
  /\ calls = 1
  /\ op = [p \in Tasks |-> IF p = 1 THEN [name |-> "createClient", clientId |-> "",
                                          newName |-> "n1", address |-> <<>>, call |-> 1]
                            ELSE NoOp]
  /\ pc = [p \in Tasks |-> IF p = 1 THEN "scan" ELSE "idle"]
  /\ ref = [p \in Tasks |-> IF p = 1 THEN 1 ELSE 0]
  /\ local = [p \in Tasks |-> IF p = 1 THEN [kind |-> "scan", i |-> ScanFirst,
                                              address |-> "undefined"]
                               ELSE NoSnap]
  /\ trace = [p \in Tasks |-> IF p = 1 THEN <<"genkey", "pubkey", "genpsk">> ELSE <<>>]
  /\ result = [p \in Tasks |-> Pending]

\* one turn of the loop: find gives a client with the last block i and the
\* loop goes on, or it gives undefined and line 248 reads client.address of it
createClientScan(p) ==
  /\ pc[p] = "scan"
  /\ local[p].i < ScanLimit
  /\ IF ScanFinds(config, local[p].i)
     THEN /\ local' = [local EXCEPT ![p].i = @ + 1]
          /\ UNCHANGED <<pc, result>>
     ELSE /\ Finish(p, Rejected(PlainError("TypeError")))
          /\ UNCHANGED local
  /\ UNCHANGED <<shared, disk, interface, boot, now, calls, op, ref, trace>>

\* i < 255 fails: the loop ends, and if (!address) holds, since no turn of the
\* loop has assigned address
createClientScanEnd(p) ==
  /\ pc[p] = "scan"
  /\ local[p].i = ScanLimit
  /\ local[p].address = "undefined"
  /\ Goto(p, "fallback")
  /\ UNCHANGED <<shared, disk, interface, boot, now, calls, op, ref, local, trace, result>>

\* let tempAddress = client.address.split('.'): client is the const of line
\* 265, read before its declaration
createClientFallback(p) ==
  /\ pc[p] = "fallback"
  /\ Finish(p, Rejected(PlainError("ReferenceError")))
  /\ UNCHANGED <<shared, disk, interface, boot, now, calls, op, ref, local, trace>>

ScanNext ==
  \E p \in Tasks :
       \/ createClientScan(p)
       \/ createClientScanEnd(p)
       \/ createClientFallback(p)

SpecScan == ScanInit /\ [][ScanNext]_vars

(* ================================ claims =============================== *)

\* task p begins a call in this step
Began(p) == op'[p] # op[p]

\* task p takes a step
Stepped(p) == pc'[p] # pc[p] \/ Began(p)

\* C1: a createClient with a non-empty name on a loaded config, none of whose
\* wg commands fails, completes successfully: it returns the new client, which
\* is stored under its id, enabled, with createdAt = updatedAt, after the
\* config has been saved and then synced.
C1_CreateClientSucceeds ==
  \A p \in Tasks :
    ( /\ pc[p] = "done"
      /\ op[p].name = "createClient"
      /\ op[p].newName # ""
      /\ ref[p] # 0
      /\ result[p].error.name # "ExecError" )
    => /\ result[p].status = "ok"
       /\ result[p].value.id \in DOMAIN config.clients
       /\ config.clients[result[p].value.id].enabled
       /\ result[p].value.createdAt = result[p].value.updatedAt
       /\ Len(trace[p]) >= 3
       /\ SubSeq(trace[p], Len(trace[p]) - 2, Len(trace[p]))
            = <<"writeJson", "writeConf", "sync">>

\* C2: createClient with an empty name throws 'Missing: Name' in the step that
\* begins it: the stored config, the promise and both files are as before, and
\* the call has run no command, no write and no sync.
C2_EmptyNameRejected ==
  [][\A p \in Tasks :
       (Began(p) /\ op'[p].name = "createClient" /\ op'[p].newName = "")
       => /\ pc'[p] = "done"
          /\ result'[p] = Rejected(PlainError("Missing: Name"))
          /\ trace'[p] = <<>>
          /\ config' = config
          /\ configPromise' = configPromise
          /\ disk' = disk
          /\ boot' = boot]_vars

C2_Witness ==
  \E p \in Tasks :
    /\ pc[p] = "done"
    /\ op[p].name = "createClient"
    /\ op[p].newName = ""
    /\ result[p].error.name = "Missing: Name"
    /\ configPromise = "resolved"
    /\ DOMAIN config.clients = StoredIds
    /\ jsonFile = Stringify(config)

\* task p runs the lookup of getClient in this step
Lookup(p) ==
  /\ Stepped(p)
  /\ configPromise = "resolved"
  /\ \/ pc[p] = "await_config" /\ op[p].name \in ClientOps
     \/ pc[p] = "getClient_config"

C4_InvalidAddressRejected ==
  [][\A p \in Tasks :
       ( /\ Stepped(p)
         /\ pc[p] = "await_client"
         /\ op[p].name = "updateClientAddress"
         /\ ~isValidIPv4(op[p].address) )
       => /\ pc'[p] = "done"
          /\ result'[p] = Rejected(ServerError(BadRequestStatus))
          /\ trace'[p] = <<>>
          /\ config' = config
          /\ disk' = disk]_vars

C4_Witness ==
  \E p \in Tasks :
    /\ pc[p] = "done"
    /\ op[p].name = "updateClientAddress"
    /\ op[p].address = <<999, 1, 1, 1>>
    /\ result[p].error = ServerError(BadRequestStatus)
    /\ op[p].clientId \in DOMAIN config.clients
    /\ config.clients[op[p].clientId].address = StoredDoc.clients[op[p].clientId].address

\* C5: deleteClient on an id that is no client returns without error and
\* leaves the config and both files as they are; on the id of a client it
\* removes that client and nothing else; so a second deleteClient of the same
\* id changes nothing.
C5_DeleteIdempotent ==
  [][\A p \in Tasks :
       ( /\ Stepped(p)
         /\ pc[p] = "await_config"
         /\ configPromise = "resolved"
         /\ op[p].name = "deleteClient" )
       => IF op[p].clientId \in DOMAIN config.clients
          THEN /\ DOMAIN config'.clients = DOMAIN config.clients \ {op[p].clientId}
               /\ \A i \in DOMAIN config'.clients : config'.clients[i] = config.clients[i]
               /\ config'.server = config.server
          ELSE /\ pc'[p] = "done"
               /\ result'[p] = Resolved("undefined")
               /\ trace'[p] = <<>>
               /\ config' = config
               /\ disk' = disk]_vars

\* a deleteClient of c1 has returned after an earlier one removed c1
C5_Witness ==
  \E p \in Tasks :
    /\ pc[p] = "done"
    /\ op[p].name = "deleteClient"
    /\ op[p].clientId = "c1"
    /\ result[p].status = "ok"
    /\ trace[p] = <<>>
    /\ configPromise = "resolved"
    /\ DOMAIN config.clients = {"c2"}

\* the clients of a document that are enabled
EnabledIn(doc) == {i \in DOMAIN doc.clients : doc.clients[i].enabled}

\* the ids of a list of getClients
ListedIds(list) == {e.id : e \in list}

C7_ConfigLoadedOnce ==
  [][configPromise = "resolved"
     => /\ configPromise' = "resolved"
        /\ configId' = configId
        /\ objects' = objects
        /\ boot' = boot
        /\ \A p \in Tasks :
             /\ (ref'[p] # ref[p] /\ ref'[p] # 0) => ref'[p] = configId
             /\ (pc[p] = "await_config" /\ op[p].name = "getConfig" /\ pc'[p] = "done")
                => result'[p] = Resolved(configId)]_vars

\* a getConfig has returned the object after a Shutdown that followed the load
C7_Witness ==
  \E p \in Tasks :
    /\ pc[p] = "done"
    /\ op[p].name = "getConfig"
    /\ op[p].call = 3
    /\ result[p] = Resolved(configId)
    /\ configId # 0
    /\ interface = "down"

BootSteps == {"boot_start", "boot_read", "boot_genkey", "boot_pubkey", "boot_json",
              "boot_conf", "boot_down", "boot_up", "boot_sync"}

\* C8: however many calls are made before the first load has finished, and
\* however they interleave, the bootstrap runs once: at most one task runs it,
\* it reads wg0.json, generates the keys, saves, stops and starts wg0 and syncs
\* at most once each, it makes one config object, and every call that gets a
\* config gets that one.
C8_SingleBootstrap ==
  /\ Cardinality({p \in Tasks : pc[p] \in BootSteps}) <= 1
  /\ boot.reads <= 1
  /\ boot.genkeys <= 1
  /\ boot.saves <= 1
  /\ boot.downs <= 1
  /\ boot.ups <= 1
  /\ boot.syncs <= 1
  /\ objects <= 1
  /\ \A p \in Tasks : ref[p] # 0 => (configPromise = "resolved" /\ ref[p] = configId)

\* a second call was made while the first runs the bootstrap, which has come
\* to its last step: the second call awaits the same promise
C8_Witness ==
  \E p, q \in Tasks :
    /\ p # q
    /\ op[p].call = 1
    /\ op[q].call = 2
    /\ op[q].name = "getConfig"
    /\ pc[p] = "boot_sync"
    /\ pc[q] = "await_config"
    /\ boot.reads = 1
    /\ boot.genkeys = 1
    /\ boot.saves = 1
    /\ boot.downs = 1
    /\ boot.ups = 1
    /\ boot.syncs = 0

\* a save is between its two writes
Saving == \E p \in Tasks : pc[p] \in {"boot_json", "boot_conf", "save_json", "save_conf"}

\* C9: whenever no save is in progress, wg0.conf is the rendering of the
\* wg0.json on disk (or neither file exists yet): no call, one whose write
\* fails included, has written one of the files without the other.
C9_FilesWrittenTogether ==
  ~Saving =>
    IF jsonFile.kind = "json" THEN confFile = RenderConf(jsonFile.doc)
    ELSE confFile = NoFile

MutatingOps == {"createClient", "deleteClient", "enableClient", "disableClient",
                "updateClientName", "updateClientAddress"}

\* what the call o leaves in the config
Applied(o, cfg) ==
  IF o.name = "deleteClient" THEN o.clientId \notin DOMAIN cfg.clients
  ELSE /\ o.clientId \in DOMAIN cfg.clients
       /\ o.name = "enableClient" => cfg.clients[o.clientId].enabled
       /\ o.name = "disableClient" => ~cfg.clients[o.clientId].enabled
       /\ o.name = "updateClientName" => cfg.clients[o.clientId].name = o.newName
       /\ o.name = "updateClientAddress" => cfg.clients[o.clientId].address = o.address

\* C10: a mutating call that has returned without error and changed the
\* config has, after the change and in this order, written wg0.json, written
\* wg0.conf and synced once (the save itself syncs nothing); in a run without
\* overlapping calls both files then hold the whole config with the change.
C10_MutationsSaveThenSync ==
  \A p \in Tasks :
    ( /\ pc[p] = "done"
      /\ result[p].status = "ok"
      /\ op[p].name \in MutatingOps
      /\ op[p].name = "deleteClient" => trace[p] # <<>> )
    => /\ Len(trace[p]) >= 4
       /\ SubSeq(trace[p], Len(trace[p]) - 3, Len(trace[p]))
            = <<"mutate", "writeJson", "writeConf", "sync">>
       /\ op[p].name # "createClient" => Len(trace[p]) = 4
       /\ serial => /\ Applied(op[p], config)
                    /\ jsonFile = Stringify(config)
                    /\ confFile = RenderConf(config)

\* a disableClient of c1 has returned after its save and sync
C10_Witness ==
  \E p \in Tasks :
    /\ pc[p] = "done"
    /\ result[p].status = "ok"
    /\ op[p].name = "disableClient"
    /\ op[p].clientId = "c1"
    /\ trace[p] = <<"mutate", "writeJson", "writeConf", "sync">>
    /\ "c1" \in DOMAIN config.clients
    /\ ~config.clients["c1"].enabled

\* C11: the bootstrap saves, stops wg0, starts wg0 and syncs, in that order
\* and each after the one before it has been done.  The step that stops wg0
\* goes on to start it whether or not wg-quick down failed, and leaves the
\* promise pending, so the load still succeeds when the start and the sync
\* do.  A wg-quick up that fails rejects the promise with no sync done; no
\* sync is done after that, and a getConfig that awaits the promise throws.
C11_BootstrapOrder ==
  [][/\ boot'.syncs <= boot'.ups
     /\ boot'.ups <= boot'.downs
     /\ boot'.downs <= boot'.saves
     /\ configPromise' = "resolved"
          => (boot'.saves = 1 /\ boot'.downs = 1 /\ boot'.ups = 1 /\ boot'.syncs = 1)
     /\ configPromise = "rejected" => boot'.syncs = boot.syncs
     /\ \A p \in Tasks :
          /\ (Stepped(p) /\ pc[p] = "boot_down")
             => /\ pc'[p] = "boot_up"
                /\ configPromise' = "pending"
                /\ boot'.downFailed = (interface # "up")
          /\ (Stepped(p) /\ pc[p] = "boot_up")
             => IF interface' = "up"
                THEN pc'[p] = "boot_sync" /\ configPromise' = "pending"
                ELSE configPromise' = "rejected" /\ boot'.syncs = 0
          /\ ( /\ pc[p] = "await_config"
               /\ op[p].name = "getConfig"
               /\ configPromise = "rejected"
               /\ pc'[p] = "done" )
             => result'[p] = Rejected(configError)]_vars

\* a getConfig has returned the config of a bootstrap whose wg-quick down
\* failed: wg0 was started and synced after it
C11_Witness ==
  \E p \in Tasks :
    /\ pc[p] = "done"
    /\ op[p].name = "getConfig"
    /\ op[p].call = 1
    /\ result[p] = Resolved(configId)
    /\ configPromise = "resolved"
    /\ boot.downFailed
    /\ boot.ups = 1
    /\ boot.syncs = 1
    /\ interface = "up"

\* C12: in the scan of a createClient whose three commands gave their keys,
\* find reports no client for any candidate 2..254, whatever addresses are
\* stored; the first candidate is taken, so the call returns a client whose
\* address has the last block 2.
C12_ScanTakesFirstCandidate ==
  [][\A p \in Tasks :
       ( /\ Stepped(p)
         /\ pc[p] = "genpsk"
         /\ op[p].name = "createClient"
         /\ result'[p].error.name # "ExecError" )
       => /\ \A i \in ScanFirst .. (ScanLimit - 1) : ~ScanFinds(config, i)
          /\ result'[p].status = "ok"
          /\ result'[p].value.address[4] = ScanFirst]_vars

\* C13: the scan gives an address on every stored collection, one with a
\* client of every candidate 2..254 included, so createClient never enters the
\* branch of if (!address).
C13_FallbackUnreachable ==
  \A p \in Tasks : pc[p] # "fallback"

\* C14: on a loaded config, no step of getClients changes the config, either
\* file, wg0 or the bootstrap's effects, and the call writes and syncs
\* nothing; its entries are one for every stored client, and the merge of
\* the dump, whose lines may have the key of no client, keeps exactly these
\* entries, so the list it returns has one entry for every client stored when
\* it read the config (in a run without overlapping calls: stored now).
C14_GetClientsReadOnly ==
  [][\A p \in Tasks :
       ( /\ Stepped(p)
         /\ configPromise = "resolved"
         /\ op[p].name = "getClients"
         /\ pc[p] \in {"await_config", "dump"} )
       => /\ config' = config
          /\ configId' = configId
          /\ disk' = disk
          /\ interface' = interface
          /\ boot' = boot
          /\ trace'[p] = <<>>
          /\ pc[p] = "await_config"
               => /\ pc'[p] = "dump"
                  /\ ListedIds(local'[p].clients) = DOMAIN config.clients
                  /\ Cardinality(local'[p].clients) = Cardinality(DOMAIN config.clients)
          /\ (pc[p] = "dump" /\ result'[p].status = "ok")
               => /\ ListedIds(result'[p].value) = ListedIds(local[p].clients)
                  /\ Cardinality(result'[p].value) = Cardinality(local[p].clients)
                  /\ serial => ListedIds(result'[p].value) = DOMAIN config.clients]_vars

\* a getClients has returned both stored clients, one of them with the data of
\* its line of a dump that also has a line of no client; the files are those
\* of the load
C14_Witness ==
  \E p \in Tasks :
    /\ pc[p] = "done"
    /\ op[p].name = "getClients"
    /\ result[p].status = "ok"
    /\ ListedIds(result[p].value) = StoredIds
    /\ \E e \in result[p].value : e.id = "c2" /\ e.transferTx = Number("2")
    /\ trace[p] = <<>>
    /\ configPromise = "resolved"
    /\ config = StoredDoc
    /\ jsonFile = Stringify(StoredDoc)
    /\ confFile = RenderConf(StoredDoc)

\* the operations that assign one field of a client, and the field
FieldOps == {"enableClient", "disableClient", "updateClientName", "updateClientAddress"}

FieldOf(name) ==
  CASE name = "enableClient" -> "enabled"
    [] name = "disableClient" -> "enabled"
    [] name = "updateClientName" -> "name"
    [] name = "updateClientAddress" -> "address"

\* C15: the step of enableClient, disableClient, updateClientName or
\* updateClientAddress that assigns (the call is past its lookup and the
\* validation) leaves the server, the set of stored ids and every other client
\* as they are, and of its own client changes at most the field it names and
\* updatedAt: id, keys and createdAt stay; no other step of these calls
\* changes the config.  In every step each stored client keeps its id, which
\* is the key it is stored under, so no two clients share an id.
C15_MutationFrame ==
  [][configPromise = "resolved"
     => /\ \A i \in DOMAIN config'.clients : config'.clients[i].id = i
        /\ \A i \in DOMAIN config.clients \cap DOMAIN config'.clients :
             config'.clients[i].id = config.clients[i].id
        /\ \A p \in Tasks :
             (Stepped(p) /\ op[p].name \in FieldOps)
             => IF pc[p] = "await_client" /\ pc'[p] = "save_enter"
                THEN /\ config'.server = config.server
                     /\ DOMAIN config'.clients = DOMAIN config.clients
                     /\ \A i \in DOMAIN config.clients \ {op[p].clientId} :
                          config'.clients[i] = config.clients[i]
                     /\ op[p].clientId \in DOMAIN config.clients
                          => \A f \in DOMAIN config.clients[op[p].clientId]
                                      \ {FieldOf(op[p].name), "updatedAt"} :
                               config'.clients[op[p].clientId][f]
                                 = config.clients[op[p].clientId][f]
                ELSE config' = config]_vars

\* an updateClientAddress of c1 has returned: c1 has the new address and its
\* id, keys and createdAt, and c2 and the server are those of the load
C15_Witness ==
  \E p \in Tasks :
    /\ pc[p] = "done"
    /\ result[p].status = "ok"
    /\ op[p].name = "updateClientAddress"
    /\ op[p].clientId = "c1"
    /\ configPromise = "resolved"
    /\ DOMAIN config.clients = StoredIds
    /\ config.clients["c1"].address = op[p].address
    /\ config.clients["c1"].address # StoredDoc.clients["c1"].address
    /\ config.clients["c1"].updatedAt # StoredDoc.clients["c1"].updatedAt
    /\ config.clients["c1"].id = "c1"
    /\ config.clients["c1"].privateKey = StoredDoc.clients["c1"].privateKey
    /\ config.clients["c1"].createdAt = StoredDoc.clients["c1"].createdAt
    /\ config.clients["c2"] = StoredDoc.clients["c2"]
    /\ config.server = StoredServer

\* C16: the config of a bootstrap that found no wg0.json it could load has a
\* server address with the last block 1 and the subnet width of
\* WG_DEFAULT_ADDRESS as the server's cidrSubnet, and every wg0.conf written
\* from it has the Address of its [Interface] section with that width, never
\* with an undefined one.
C16_ServerSubnetDefined ==
  boot.genkeys = 1
  => /\ configPromise = "resolved"
          => /\ config.server.address[4] = 1
             /\ "cidrSubnet" \in DOMAIN config.server
             /\ config.server.cidrSubnet = WG_DEFAULT_ADDRESS.subnetIp
     /\ confFile.kind = "conf"
          => /\ confFile.interface.address[4] = 1
             /\ confFile.interface.cidrSubnet = WG_DEFAULT_ADDRESS.subnetIp

\* C17: a promise of getConfig that was rejected (WG_HOST not set, a write of
\* the first save, wg-quick up or the first sync failed) stays rejected with
\* the same error: every call that awaits getConfig after that throws this
\* error and has done nothing else, and nothing of the bootstrap (the read of
\* wg0.json, the key generation, the save, wg-quick down and up, the sync) is
\* done again; no config is made and the files stay as the bootstrap left them.
C17_FailureCached ==
  [][/\ ~wgHost => configPromise' \notin {"resolved"}
     /\ configPromise = "rejected"
          => /\ configPromise' = "rejected"
             /\ configError' = configError
             /\ boot' = boot
             /\ objects' = objects
             /\ config' = NoConfig
             /\ disk' = disk
             /\ \A p \in Tasks :
                  /\ pc'[p] \notin BootSteps
                  /\ (Stepped(p) /\ pc[p] = "await_config")
                       => /\ pc'[p] = "done"
                          /\ result'[p] = Rejected(configError)
                          /\ trace'[p] = <<>>]_vars

\* the third call of a run, a getClients, has thrown the error of the
\* wg-quick up that failed in the bootstrap; the bootstrap's effects are those
\* of its one run
C17_Witness ==
  \E p \in Tasks :
    /\ pc[p] = "done"
    /\ op[p].name = "getClients"
    /\ op[p].call = 3
    /\ configPromise = "rejected"
    /\ configError.name = "WireGuard exited with the error"
    /\ result[p] = Rejected(configError)
    /\ boot.reads = 1
    /\ boot.saves = 1
    /\ boot.ups = 1
    /\ boot.syncs = 0

SaveSteps == {"save_enter", "save_json", "save_conf", "sync"}

\* C18: deleteClient of a stored id, enableClient, disableClient,
\* updateClientName and updateClientAddress change the config before their
\* save starts.  No step of the save and the sync changes the config, so a
\* call that throws because a write or the sync failed leaves its change in
\* the config (in a run without overlapping calls the config then has the
\* change); getClient returns the client as the config has it and getClients
\* lists from the config; and a write that succeeds writes the text of the
\* whole config (without overlapping calls: as it is when the write is done).
C18_NoRollback ==
  [][\A p \in Tasks :
       /\ (Stepped(p) /\ pc[p] \in SaveSteps)
            => /\ config' = config
               /\ trace[p][1] = "mutate"
               /\ op[p].name \in MutatingOps
       /\ (Stepped(p) /\ pc[p] \in SaveSteps /\ result'[p].status = "error")
            => /\ pc'[p] = "done"
               /\ serial => Applied(op[p], config')
       /\ (Stepped(p) /\ pc[p] = "save_json" /\ pc'[p] = "save_conf")
            => /\ jsonFile' = local[p].json
               /\ serial => jsonFile' = Stringify(config)
       /\ (Stepped(p) /\ pc[p] = "save_conf" /\ pc'[p] = "sync")
            => /\ confFile' = local[p].conf
               /\ serial => confFile' = RenderConf(config)
       /\ (Stepped(p) /\ pc[p] = "save_enter")
            => local'[p] = SaveTexts(config)
       /\ ( /\ Stepped(p)
            /\ configPromise = "resolved"
            /\ pc[p] = "await_config"
            /\ op[p].name = "getClient"
            /\ result'[p].status = "ok" )
            => result'[p].value = config.clients[op[p].clientId]
       /\ ( /\ Stepped(p)
            /\ configPromise = "resolved"
            /\ pc[p] = "await_config"
            /\ op[p].name = "getClients" )
            => local'[p].clients
                 = {ListEntry(i, config.clients[i]) : i \in DOMAIN config.clients}]_vars

\* in a run without overlapping calls a getClient, the third call, has
\* returned c1 disabled while the wg0.json on disk has it enabled: the
\* disableClient before it changed the config and its save failed
C18_Witness ==
  \E p \in Tasks :
    /\ serial
    /\ pc[p] = "done"
    /\ op[p].name = "getClient"
    /\ op[p].clientId = "c1"
    /\ op[p].call = 3
    /\ result[p].status = "ok"
    /\ ~result[p].value.enabled
    /\ jsonFile.kind = "json"
    /\ jsonFile.doc.clients["c1"].enabled
    /\ confFile = RenderConf(jsonFile.doc)

\* C19: when two calls that ran at the same time, each an enableClient,
\* disableClient, updateClientName or updateClientAddress and each on another
\* stored client, have both returned without error, the config has both
\* changes, wg0.json is the text of that config and wg0.conf its rendering.
C19_ConcurrentMutationsPersisted ==
  \A p, q \in Tasks :
    ( /\ p # q
      /\ pc[p] = "done"
      /\ pc[q] = "done"
      /\ result[p].status = "ok"
      /\ result[q].status = "ok"
      /\ op[p].name \in FieldOps
      /\ op[q].name \in FieldOps
      /\ op[p].clientId # op[q].clientId )
    => /\ Applied(op[p], config)
       /\ Applied(op[q], config)
       /\ jsonFile = Stringify(config)
       /\ confFile = RenderConf(config)

====
